---- MODULE Spec2Model ----
(***************************************************************************)
(* Authentication, authorization and the transaction-create workflow of    *)
(* the personal-finance API.                                               *)
(*                                                                         *)
(*   src/src/auth.ts          authMiddleware, requireAdmin, login          *)
(*   src/unnamed/part_001     index.ts with the admin-override handler     *)
(*   src/unnamed/part_000     categories.db.ts used by part_001            *)
(*   src/src/index.ts         index.ts whose handler has no override       *)
(*   src/src/categories.db.ts categories.db.ts used by src/src/index.ts    *)
(*                                                                         *)
(* The repository holds two generations of index.ts.  A process serves one *)
(* of them, named by app: "override" is part_001, whose POST /transactions *)
(* has the admin override, "plain" is src/src/index.ts, which has none.    *)
(*                                                                         *)
(* The runtime is single threaded: the code between two awaits runs        *)
(* atomically, and requests interleave at their awaits.  A request is      *)
(* therefore a small process: Arrive runs authMiddleware and the handler   *)
(* up to its first store call, Lookup runs the store lookup and the code   *)
(* up to the insert call (the slug is taken from the clock there), Insert  *)
(* is the insert in the store and the response.                            *)
(*                                                                         *)
(* The store is the one prisma/seed.ts leaves behind.  It answers every    *)
(* lookup; it refuses an insert by its constraints alone (the foreign keys *)
(* of the row, the unique slug).  Tokens are records: kind tells whether   *)
(* the text parses as a JWT, sig names the secret that signed it.          *)
(***************************************************************************)
EXTENDS Integers, FiniteSets, Sequences, TLC

(* ------------------------------ bounds -------------------------------- *)
\* requests the model follows
MaxReq == 2
\* tokens handed out by login
MaxLogins == 2
\* millisecond ticks inside one second
MaxMs == 1
\* whole token lifetimes the clock may jump
MaxPeriods == 1
\* rows of each createMany of prisma/seed.ts the store starts with
SeedRows == 1
\* GET requests the model follows
MaxGet == 1
\* registrations the model follows
MaxReg == 2
\* requests of all kinds together, where every endpoint is followed
MaxStarted == 2
\* DELETE and PATCH requests the model follows
MaxEdit == 2

(* --------------------------- configuration ---------------------------- *)
\* auth.ts:17  process.env.JWT_SECRET, loaded once
jwtSecret == "process-secret"
\* a secret that is not the process secret
otherSecret == "other-secret"
\* auth.ts:22  parseInt(process.env.TOKEN_LIFETIME || '3600', 10), seconds
tokenLifetime == 3600

(* ----------------------------- the store ------------------------------ *)
\* bcrypt.hash / bcrypt.compare: the hash is not the password, and compare
\* hashes the candidate again
bcryptHash(password) == <<"$2b$10$", password>>
bcryptCompare(password, hash) == bcryptHash(password) = hash

\* prisma/seed.ts, "Create Users": the ids are the autoincrement keys of a
\* fresh store
SeedUsers ==
    { [id |-> 1, username |-> "admin",  email |-> "admin@example.com",
       password |-> bcryptHash("password123"), admin |-> TRUE,
       slug |-> <<"admin">>],
      [id |-> 2, username |-> "jonas",  email |-> "jonas@example.com",
       password |-> bcryptHash("laungis123"),  admin |-> FALSE,
       slug |-> <<"jonas">>],
      [id |-> 3, username |-> "katrin", email |-> "katrin@example.com",
       password |-> bcryptHash("draumur456"),  admin |-> FALSE,
       slug |-> <<"katrin">>] }

\* prisma/seed.ts, "Create Accounts": one account per seeded user
SeedAccounts ==
    { [id |-> 1, user_id |-> 1],
      [id |-> 2, user_id |-> 2],
      [id |-> 3, user_id |-> 3] }

\* prisma/seed.ts, "Create Payment Methods"
SeedPaymentMethods == {1, 2, 3}

\* prisma/seed.ts, "Create Transactions": ten rows for each seeded user on
\* that user's account, the payment methods in turn, the slug
\* `${prefix}-tx-${Date.now()}-${index}`; the model keeps the first SeedRows
\* of each ten.  req is 0: no request made these rows.
SeedTransactions ==
    { [id |-> (u.id - 1) * 10 + i, account_id |-> u.id, user_id |-> u.id,
       payment_method_id |-> ((i - 1) % 3) + 1,
       slug |-> <<u.username, "tx", i>>, req |-> 0]
      : u \in SeedUsers, i \in 1..SeedRows }

VARIABLES
    now,           \* Date.now(), milliseconds
    users,         \* table users
    accounts,      \* table accounts
    transactions,  \* table transactions
    nextTxId,      \* the autoincrement key of transactions
    issued,        \* tokens login has returned, with the username that logged in
    reqs,          \* the POST /transactions requests, by arrival order
    app,           \* the index.ts the process serves
    nextUserId,    \* the autoincrement key of users
    gets,          \* the GET requests, by arrival order
    regs,          \* the POST /auth/users/register requests, by arrival order
    logins,        \* the responses login has sent (history)
    edits          \* the DELETE and PATCH /transactions/:slug requests

vars == <<now, users, accounts, transactions, nextTxId, issued, reqs, app,
          nextUserId, gets, regs, logins, edits>>

ReqIds == 1..MaxReq
GetIds == 1..MaxGet
RegIds == 1..MaxReg
EditIds == 1..MaxEdit

(* --------------------------- Token Service ---------------------------- *)
\* jsonwebtoken counts in seconds: Math.floor(Date.now() / 1000)
ClockTimestamp(ms) == ms \div 1000

\* a token that does not carry the admin flag
jwtSign_NoAdmin(payload, secret, expiresIn, ms) ==
    [kind |-> "jwt",
     id |-> payload.id, username |-> payload.username,
     adminClaim |-> "absent",
     iat |-> ClockTimestamp(ms),
     exp |-> ClockTimestamp(ms) + expiresIn,
     sig |-> secret]

\* jwt.sign(payload, secret, { expiresIn }): iat and exp join the payload,
\* the signature binds the secret
jwtSign(payload, secret, expiresIn, ms) ==
    [kind |-> "jwt",
     id |-> payload.id, username |-> payload.username,
     adminClaim |-> IF payload.admin THEN "true" ELSE "false",
     iat |-> ClockTimestamp(ms),
     exp |-> ClockTimestamp(ms) + expiresIn,
     sig |-> secret]

\* what a client can put after "Bearer " without a token of the service
EmptyToken ==
    [kind |-> "empty", id |-> 0, username |-> "", adminClaim |-> "absent",
     iat |-> 0, exp |-> 0, sig |-> ""]
GarbageToken ==
    [kind |-> "garbage", id |-> 0, username |-> "", adminClaim |-> "absent",
     iat |-> 0, exp |-> 0, sig |-> ""]

\* a verify that accepts a token in the second it expires
jwtVerify_Late(token, secret, ms) ==
    IF token.kind = "empty"
    THEN [ok |-> FALSE, name |-> "JsonWebTokenError", message |-> "jwt must be provided"]
    ELSE IF token.kind # "jwt"
    THEN [ok |-> FALSE, name |-> "JsonWebTokenError", message |-> "jwt malformed"]
    ELSE IF token.sig # secret
    THEN [ok |-> FALSE, name |-> "JsonWebTokenError", message |-> "invalid signature"]
    ELSE IF ClockTimestamp(ms) > token.exp
    THEN [ok |-> FALSE, name |-> "TokenExpiredError", message |-> "jwt expired"]
    ELSE [ok |-> TRUE, name |-> "", message |-> ""]

\* jwt.verify(token, secret): parse, then signature, then expiry
jwtVerify(token, secret, ms) ==
    IF token.kind = "empty"
    THEN [ok |-> FALSE, name |-> "JsonWebTokenError", message |-> "jwt must be provided"]
    ELSE IF token.kind # "jwt"
    THEN [ok |-> FALSE, name |-> "JsonWebTokenError", message |-> "jwt malformed"]
    ELSE IF token.sig # secret
    THEN [ok |-> FALSE, name |-> "JsonWebTokenError", message |-> "invalid signature"]
    ELSE IF ClockTimestamp(ms) >= token.exp
    THEN [ok |-> FALSE, name |-> "TokenExpiredError", message |-> "jwt expired"]
    ELSE [ok |-> TRUE, name |-> "", message |-> ""]

(* ---------------------- Authorization Middleware ---------------------- *)
NoUser == [id |-> 0, username |-> "", admin |-> FALSE]

NoHeader == [present |-> FALSE, scheme |-> "", token |-> EmptyToken]

\* the scheme compared without regard to case
HasBearer_AnyCase(header) ==
    header.present /\ header.scheme \in {"Bearer", "bearer"}

\* auth.ts:48  authHeader && authHeader.startsWith('Bearer ')
HasBearer(header) == header.present /\ header.scheme = "Bearer"

\* one message for every verification failure
errorMessage_Same(name) == "Invalid token"

\* auth.ts:81  the message of the 401 a failed verification gets
errorMessage(name) ==
    IF name = "TokenExpiredError" THEN "Token expired" ELSE "Invalid token"

\* a check of the id alone
PayloadComplete_IdOnly(decoded) == decoded.id # 0

\* auth.ts:58  !(!decoded?.id || !decoded?.username); an id or a username
\* the payload does not have reads as 0 or ""
PayloadComplete(decoded) == decoded.id # 0 /\ decoded.username # ""

\* authMiddleware: the response it sends, or the context it sets before
\* next(); logged is the error.message of a failed verification (line 80)
authMiddleware(header, ms) ==
    IF ~HasBearer(header)
    THEN [next |-> FALSE, status |-> 401, logged |-> "",
          error |-> "Authorization header missing or invalid", user |-> NoUser]
    ELSE LET v == jwtVerify(header.token, jwtSecret, ms) IN
         IF ~v.ok
         THEN [next |-> FALSE, status |-> 401, logged |-> v.message,
               error |-> errorMessage(v.name), user |-> NoUser]
         ELSE IF ~PayloadComplete(header.token)
         THEN [next |-> FALSE, status |-> 401, logged |-> "",
               error |-> "Invalid token payload", user |-> NoUser]
         ELSE [next |-> TRUE, status |-> 0, logged |-> "", error |-> "",
               user |-> [id |-> header.token.id,
                         username |-> header.token.username,
                         admin |-> header.token.adminClaim = "true"]]

\* requireAdmin that asks only for an identity context
requireAdmin_AnyUser(user) ==
    IF user = NoUser
    THEN [next |-> FALSE, status |-> 403,
          error |-> "Forbidden: Administrator access required", user |-> user]
    ELSE [next |-> TRUE, status |-> 0, error |-> "", user |-> user]

\* requireAdmin: user is c.get('user'), NoUser when it is undefined; the
\* context is read and never set
requireAdmin(user) ==
    IF user = NoUser \/ ~user.admin
    THEN [next |-> FALSE, status |-> 403,
          error |-> "Forbidden: Administrator access required", user |-> user]
    ELSE [next |-> TRUE, status |-> 0, error |-> "", user |-> user]

\* the middleware of a route run in the order of its registration, up to
\* the first that does not call next(); st.stages lists what ran, st.ctxIn
\* is the context requireAdmin read
RECURSIVE RunChain(_, _, _, _)
RunChain(chain, header, ms, st) ==
    IF chain = <<>> \/ ~st.next
    THEN st
    ELSE IF Head(chain) = "authMiddleware"
    THEN LET a == authMiddleware(header, ms) IN
         RunChain(Tail(chain), header, ms,
                  [st EXCEPT !.stages = Append(@, "authMiddleware"),
                             !.next = a.next, !.status = a.status,
                             !.error = a.error, !.user = a.user])
    ELSE LET q == requireAdmin(st.user) IN
         RunChain(Tail(chain), header, ms,
                  [st EXCEPT !.stages = Append(@, "requireAdmin"),
                             !.next = q.next, !.status = q.status,
                             !.error = q.error, !.ctxIn = st.user,
                             !.user = q.user])

(* ------------------------ Transaction Workflow ------------------------ *)
\* z.enum of the category names, written without their accents
Categories == {"matur", "ibud", "samgongur", "afthreying", "laun", "annad"}

\* the schema without the .max(1000000) of amount
FieldRulesHold_NoMax(body) ==
    /\ body.account_id > 0
    /\ body.payment_method_id \in {1, 2, 3}
    /\ body.transaction_type \in {"income", "expense"}
    /\ body.category \in Categories
    /\ body.amount > 0
    /\ body.description >= 1 /\ body.description <= 1024

\* the field rules both TransactionToCreateSchema share; description is
\* held by its length
FieldRulesHold(body) ==
    /\ body.account_id > 0
    /\ body.payment_method_id \in {1, 2, 3}
    /\ body.transaction_type \in {"income", "expense"}
    /\ body.category \in Categories
    /\ body.amount > 0 /\ body.amount <= 1000000
    /\ body.description >= 1 /\ body.description <= 1024

\* part_000 validateTransaction: target_user_id is optional, positive when
\* given, and is part of the validated data
validateTransaction(body) ==
    LET ok == FieldRulesHold(body) /\ (body.has_target => body.target_user_id > 0)
    IN [success |-> ok, data |-> body]

\* src/src/categories.db.ts validateTransaction: the schema has no
\* target_user_id, and zod drops the keys a schema does not name
validateTransactionPlain(body) ==
    [success |-> FieldRulesHold(body),
     data |-> [body EXCEPT !.has_target = FALSE, !.target_user_id = 0]]

\* the slug of createTransaction: `tx-${user_id}-${Date.now()}`
TxSlug(user_id, ms) == <<"tx", user_id, ms>>
NoSlug == <<"", 0, 0>>

\* createTransaction up to its await: the id check (0 stands for a missing
\* id) and the slug
createTransaction(data, user_id, ms) ==
    IF user_id = 0 \/ data.account_id = 0 \/ data.payment_method_id = 0
    THEN [pc |-> "done", status |-> 500, slug |-> NoSlug]
    ELSE [pc |-> "insert", status |-> 0, slug |-> TxSlug(user_id, ms)]

\* the foreign key of transactions.account_id: the row names an account
AccountKeyResolves(row) == \E a \in accounts : a.id = row.account_id

\* a handler that answers the failed create as if it had succeeded
createFailed_Created(a) == [status |-> 201, error |-> ""]

\* catch (e) { return c.json({ error: ... }, 500) } around createTransaction
\* in index.ts a
createFailed(a) ==
    [status |-> 500,
     error |-> IF a = "override" THEN "DB error"
               ELSE "Failed to create transaction"]

\* prisma.transactions.create as the store decides it: the foreign keys of
\* the row resolve and the slug is unique
InsertAccepted(row) ==
    /\ AccountKeyResolves(row)
    /\ \E u \in users : u.id = row.user_id
    /\ row.payment_method_id \in SeedPaymentMethods
    /\ \A t \in transactions : t.slug # row.slug

\* the override without its target lookup
TargetUserExists_Unchecked(id) == TRUE

\* prisma.users.findUnique({ where: { id } })
TargetUserExists(id) == \E u \in users : u.id = id

\* the lookup without its user_id condition
AccountOwnedBy_AnyOwner(account_id, user_id) ==
    \E a \in accounts : a.id = account_id

\* prisma.accounts.findUnique({ where: { id, user_id } })
AccountOwnedBy(account_id, user_id) ==
    \E a \in accounts : a.id = account_id /\ a.user_id = user_id

\* a refusal that tells a missing account from another identity's
accountRefusal_Telling(a, account_id) ==
    IF \E x \in accounts : x.id = account_id
    THEN [status |-> 403,
          error |-> IF a = "override" THEN "Bad account"
                    ELSE "Invalid account specified"]
    ELSE [status |-> 404, error |-> "Account not found"]

\* if (!account) return c.json({ error: ... }, 403) of index.ts a: the
\* response names neither the account nor why the lookup found nothing
accountRefusal(a, account_id) ==
    [status |-> 403,
     error |-> IF a = "override" THEN "Bad account"
               ELSE "Invalid account specified"]

(* ------------------------------ requests ------------------------------ *)
NoBody ==
    [parsable |-> FALSE, account_id |-> 0, payment_method_id |-> 0,
     transaction_type |-> "", category |-> "", amount |-> 0, description |-> 0,
     has_target |-> FALSE, target_user_id |-> 0]

\* a request: pc is where it stands (idle: not received; lookupUser,
\* lookupAccount, insert: at that await; done: answered), handled whether
\* authMiddleware called next(), user the identity context, status and error
\* the response, logged the message of a failed jwt.verify.  during (the
\* requests in flight when it arrived), pastExpiry, responses (the c.json
\* returns it has run), inserts (its prisma.transactions.create calls) and
\* lookups (its findUnique calls) are history.
IdleReq ==
    [pc |-> "idle", header |-> NoHeader, pastExpiry |-> FALSE, user |-> NoUser,
     handled |-> FALSE, during |-> {}, body |-> NoBody, finalUserId |-> 0, slug |-> NoSlug,
     status |-> 0, error |-> "", logged |-> "", responses |-> 0, inserts |-> 0,
     lookups |-> 0]

\* a request record after a step of its handler: a step that ends the
\* handler has run one return c.json(...)
Returned(q) == IF q.pc = "done" THEN [q EXCEPT !.responses = @ + 1] ELSE q

\* the override open to every requester
UseOverride_Anyone(user, data) == data.has_target

\* part_001:176  loggedInUser.admin && validatedData.target_user_id
UseOverride(user, data) == user.admin /\ data.has_target

\* a handler that goes to its lookup before it validates the payload
PostTransactions_LookupFirst(user, body) ==
    IF ~body.parsable
    THEN [pc |-> "done", status |-> 400, error |-> "Bad JSON", finalUserId |-> 0]
    ELSE IF user.admin /\ body.has_target
    THEN [pc |-> "lookupUser", status |-> 0, error |-> "",
          finalUserId |-> body.target_user_id]
    ELSE [pc |-> "lookupAccount", status |-> 0, error |-> "",
          finalUserId |-> user.id]

\* part_001 app.post('/transactions') up to its first store call
PostTransactions(user, body) ==
    IF ~body.parsable
    THEN [pc |-> "done", status |-> 400, error |-> "Bad JSON", finalUserId |-> 0]
    ELSE LET validation == validateTransaction(body) IN
         IF ~validation.success
         THEN [pc |-> "done", status |-> 400, error |-> "Bad data", finalUserId |-> 0]
         ELSE IF UseOverride(user, validation.data)
         THEN [pc |-> "lookupUser", status |-> 0, error |-> "",
               finalUserId |-> validation.data.target_user_id]
         ELSE [pc |-> "lookupAccount", status |-> 0, error |-> "",
               finalUserId |-> user.id]

\* an ownership lookup on the override branch as well
OwnershipAsked_Always(pc) == TRUE

\* part_001:182  the ownership lookup stands in the else of the override
OwnershipAsked(pc) == pc = "lookupAccount"

\* part_001 app.post('/transactions') from the answer of its lookup to the
\* insert call of createTransaction
PostTransactionsLookedUp(req, ms) ==
    IF req.pc = "lookupUser" /\ ~TargetUserExists(req.finalUserId)
    THEN [req EXCEPT !.pc = "done", !.status = 404, !.error = "Target user not found"]
    ELSE IF OwnershipAsked(req.pc)
            /\ ~AccountOwnedBy(req.body.account_id, req.finalUserId)
    THEN LET refusal == accountRefusal("override", req.body.account_id)
         IN [req EXCEPT !.pc = "done", !.status = refusal.status,
                        !.error = refusal.error]
    ELSE LET c == createTransaction(validateTransaction(req.body).data,
                                    req.finalUserId, ms)
         IN [req EXCEPT !.pc = c.pc, !.status = c.status, !.slug = c.slug,
                        !.error = IF c.status = 500 THEN "DB error" ELSE ""]

\* src/src/index.ts app.post('/transactions') up to its first store call:
\* the owner is always the requester, and an admin goes to the insert
\* without a lookup
PostTransactionsPlain(user, body, ms) ==
    IF ~body.parsable
    THEN [pc |-> "done", status |-> 400, error |-> "Invalid JSON body",
          finalUserId |-> 0, slug |-> NoSlug]
    ELSE LET validationResult == validateTransactionPlain(body) IN
         IF ~validationResult.success
         THEN [pc |-> "done", status |-> 400, error |-> "Invalid transaction data",
               finalUserId |-> 0, slug |-> NoSlug]
         ELSE IF ~user.admin
         THEN [pc |-> "lookupAccount", status |-> 0, error |-> "",
               finalUserId |-> user.id, slug |-> NoSlug]
         ELSE LET c == createTransaction(validationResult.data, user.id, ms)
              IN [pc |-> c.pc, status |-> c.status,
                  error |-> IF c.status = 500
                            THEN "Failed to create transaction" ELSE "",
                  finalUserId |-> user.id, slug |-> c.slug]

\* src/src/index.ts app.post('/transactions') from the answer of the account
\* lookup to the insert call
PostTransactionsPlainLookedUp(req, ms) ==
    IF ~AccountOwnedBy(req.body.account_id, req.user.id)
    THEN LET refusal == accountRefusal("plain", req.body.account_id)
         IN [req EXCEPT !.pc = "done", !.status = refusal.status,
                        !.error = refusal.error]
    ELSE LET c == createTransaction(validateTransactionPlain(req.body).data,
                                    req.finalUserId, ms)
         IN [req EXCEPT !.pc = c.pc, !.status = c.status, !.slug = c.slug,
                        !.error = IF c.status = 500
                                  THEN "Failed to create transaction" ELSE ""]

\* a row whose owner is the target_user_id of the body whoever asks
TxRow_OwnerFromBody(r, id) ==
    [id |-> id, account_id |-> reqs[r].body.account_id,
     user_id |-> IF reqs[r].body.has_target
                 THEN reqs[r].body.target_user_id ELSE reqs[r].finalUserId,
     payment_method_id |-> reqs[r].body.payment_method_id,
     slug |-> reqs[r].slug, req |-> r]

\* the row createTransaction hands to prisma.transactions.create; req is the
\* request that made it (history, not a column)
TxRow(r, id) ==
    [id |-> id, account_id |-> reqs[r].body.account_id,
     user_id |-> reqs[r].finalUserId,
     payment_method_id |-> reqs[r].body.payment_method_id,
     slug |-> reqs[r].slug, req |-> r]

\* a GET request: route, target (the :username) and page are what the
\* client asked for, stages the middleware and handler that ran, in order,
\* ctxIn the context requireAdmin read, user the context at the end, list
\* the ids of the rows of a 200; pastExpiry is history
IdleGet ==
    [pc |-> "idle", route |-> "", target |-> "", page |-> 0,
     header |-> NoHeader, pastExpiry |-> FALSE, user |-> NoUser,
     ctxIn |-> NoUser, stages |-> <<>>, status |-> 0, error |-> "",
     list |-> {}]

\* a registration: pc is where it stands (idle; precheck: at findFirst;
\* hash: at bcrypt.hash; create: at prisma.users.create; done), field the
\* meta.target of a P2002, created the id of the row it made;
\* passedPrecheck (findFirst found nothing) is history; log is what the
\* handler wrote to the console, response the body of a 201
IdleReg ==
    [pc |-> "idle", username |-> "", email |-> "", password |-> "",
     slug |-> <<>>, passedPrecheck |-> FALSE, status |-> 0, error |-> "",
     field |-> "", created |-> 0, log |-> <<>>, response |-> <<>>]

\* a DELETE or PATCH /transactions/:slug request: pc is where it stands
\* (idle; lookup: at getTransaction; write: at deleteTransaction or
\* updateTransaction; done), found the row getTransaction returned
NoRow ==
    [id |-> 0, account_id |-> 0, user_id |-> 0, payment_method_id |-> 0,
     slug |-> <<>>, req |-> 0]

NoPatch ==
    [parsable |-> FALSE, has_account |-> FALSE, account_id |-> 0,
     has_payment_method |-> FALSE, payment_method_id |-> 0]

IdleEdit ==
    [pc |-> "idle", method |-> "", slug |-> <<>>, header |-> NoHeader,
     body |-> NoPatch, found |-> NoRow, status |-> 0, error |-> ""]

(* --------------------------- what clients send ------------------------ *)
\* tokens signed without the process secret: one that never expires within
\* the run, one that is expired from the start
ForgedTokens ==
    { jwtSign([id |-> 1, username |-> "admin", admin |-> TRUE], otherSecret, e, 0)
      : e \in {0, tokenLifetime * (MaxPeriods + 2)} }

IssuedTokens == { i.token : i \in issued }

\* tokens signed with the process secret whose payload is not the one login
\* writes: no (or zero) id, no (or empty) username, no admin claim; and one
\* as login writes it
SignedPayloads ==
    { [id |-> 0, username |-> "jonas", admin |-> "false"],
      [id |-> 2, username |-> "", admin |-> "false"],
      [id |-> 0, username |-> "", admin |-> "true"],
      [id |-> 2, username |-> "jonas", admin |-> "absent"],
      [id |-> 1, username |-> "admin", admin |-> "absent"],
      [id |-> 1, username |-> "admin", admin |-> "true"] }

SignedHeaders ==
    { [present |-> TRUE, scheme |-> "Bearer",
       token |-> [jwtSign([id |-> p.id, username |-> p.username,
                           admin |-> FALSE], jwtSecret, tokenLifetime, 0)
                  EXCEPT !.adminClaim = p.admin]]
      : p \in SignedPayloads }

Headers ==
    {NoHeader}
    \cup { [present |-> TRUE, scheme |-> "Basic", token |-> GarbageToken] }
    \cup { [present |-> TRUE, scheme |-> "Bearer", token |-> t]
           : t \in {EmptyToken, GarbageToken} \cup ForgedTokens \cup IssuedTokens }
    \cup { [present |-> TRUE, scheme |-> "bearer", token |-> t] : t \in IssuedTokens }

ValidBody(account_id, has_target, target_user_id) ==
    [parsable |-> TRUE, account_id |-> account_id, payment_method_id |-> 1,
     transaction_type |-> "expense", category |-> "matur", amount |-> 150,
     description |-> 11, has_target |-> has_target,
     target_user_id |-> target_user_id]

\* 9 is the id of no user and of no account
Bodies ==
    { ValidBody(a, FALSE, 0) : a \in {1, 2, 3, 9} }
    \cup { ValidBody(a, TRUE, t) : a \in {1, 2, 3, 9}, t \in {3, 9} }
    \cup { [ValidBody(9, TRUE, 9) EXCEPT !.amount = 0] }
    \cup { [NoBody EXCEPT !.has_target = TRUE, !.target_user_id = 9] }

\* a name of 101 characters
LongName ==
    "aaaaaaaaaaaaaaaaaaaaaaaaaaaaaaaaaaaaaaaaaaaaaaaaaaaaaaaaaaaaaaaaaaaaaaaaaaaaaaaaaaaaaaaaaaaaaaaaaaaaa"

\* the :username of GET /transactions/:username
TargetUsernames == {"admin", "jonas", "katrin", "nobody", LongName}

\* the page of GET /transactions?page=
Pages == {0, 1, -1}

\* values of each field of the payload on both sides of its rule; "" and 0
\* also stand for a field that is missing
FieldValues ==
    [account_id |-> {-1, 0, 1, 2},
     payment_method_id |-> {0, 1, 3, 4},
     transaction_type |-> {"income", "expense", "transfer", ""},
     category |-> {"matur", "annad", "bensin", ""},
     amount |-> {-5, 0, 1, 1000000, 1000001},
     description |-> {0, 1, 1024, 1025},
     target_user_id |-> {-1, 0, 2}]

\* the payloads that differ from base in fields f1 and f2 at most
Varied(base, f1, f2) ==
    { [[base EXCEPT ![f1] = v1] EXCEPT ![f2] = v2] :
        v1 \in FieldValues[f1], v2 \in FieldValues[f2] }

\* payloads that leave a valid payload in one field or in two, with and
\* without a target_user_id, and a body that is no JSON
FieldBodies ==
    UNION { Varied(ValidBody(1, t, 2), f1, f2) :
              t \in BOOLEAN,
              f1 \in DOMAIN FieldValues, f2 \in DOMAIN FieldValues }
    \cup {NoBody}

\* the Authorization headers that carry a token of login
IssuedHeaders ==
    { [present |-> TRUE, scheme |-> "Bearer", token |-> t] : t \in IssuedTokens }

\* nyr is a name a registration may bring into the store
Credentials ==
    { <<"admin", "password123">>, <<"jonas", "laungis123">>,
      <<"katrin", "draumur456">>, <<"jonas", "draumur456">>,
      <<"nobody", "password123">>, <<"", "">>,
      <<"nyr", "lykilord1">>, <<"nyr", "password123">> }

\* the bodies of POST /auth/users/login: no JSON, the JSON null, and
\* objects, "" standing for a field the object lacks or holds empty
LoginBodies ==
    { [kind |-> "unparsable", username |-> "", password |-> ""],
      [kind |-> "null", username |-> "", password |-> ""] }
    \cup { [kind |-> "object", username |-> u, password |-> w]
            : u \in {"", "admin", "jonas", "nobody"},
              w \in {"", "password123", "laungis123"} }

\* the body of POST /auth/users/register
RegBody(username, email, password) ==
    [parsable |-> TRUE, username |-> username, email |-> email,
     password |-> password]

\* a new identity; the same username, or the same email, or the same slug
\* base, with the rest new; a username or an email of the seed; and bodies
\* the schema refuses
RegBodies ==
    { RegBody("nyr", "nyr@example.com", "lykilord1"),
      RegBody("nyr", "annar@example.com", "lykilord1"),
      RegBody("annar", "nyr@example.com", "lykilord1"),
      RegBody("Nyr", "thridji@example.com", "lykilord1"),
      RegBody("jonas", "jonas2@example.com", "lykilord1"),
      RegBody("fjordi", "katrin@example.com", "lykilord1"),
      RegBody("ab", "stutt@example.com", "lykilord1"),
      RegBody("fimmti", "not-an-email", "lykilord1"),
      RegBody("sjotti", "sjotti@example.com", "stutt"),
      [parsable |-> FALSE, username |-> "", email |-> "", password |-> ""] }

\* the slugs of the seeded rows, and one of no row
EditSlugs == { t.slug : t \in SeedTransactions } \cup { <<"none">> }

\* the bodies of PATCH: no JSON, a payment method, a payment method the
\* schema refuses, an account that is none
PatchBodies ==
    { NoPatch,
      [NoPatch EXCEPT !.parsable = TRUE, !.has_payment_method = TRUE,
                      !.payment_method_id = 2],
      [NoPatch EXCEPT !.parsable = TRUE, !.has_payment_method = TRUE,
                      !.payment_method_id = 7],
      [NoPatch EXCEPT !.parsable = TRUE, !.has_account = TRUE,
                      !.account_id = 9] }

(* ------------------------------- login -------------------------------- *)
\* a response that carries the stored row whole
WithoutPassword_Whole(user) == user

\* const { password: _p, ...rest } = user  (auth.ts:158 and auth.ts:196)
WithoutPassword(user) == [f \in DOMAIN user \ {"password"} |-> user[f]]

\* findUserByUsernameInternal
findUserByUsernameInternal(username) == { u \in users : u.username = username }

\* a login that tells an unknown username from a wrong password
loginRefusal_Telling(why) ==
    IF why = "no user"
    THEN [status |-> 404, error |-> "User not found",
          token |-> EmptyToken, user |-> NoUser,
          lookups |-> 1, compares |-> 0]
    ELSE [status |-> 401, error |-> "Invalid credentials",
          token |-> EmptyToken, user |-> NoUser,
          lookups |-> 1, compares |-> 1]

\* auth.ts:184 (why = "no user") and auth.ts:190 (why = "wrong password")
loginRefusal(why) ==
    [status |-> 401, error |-> "Invalid credentials",
     token |-> EmptyToken, user |-> NoUser,
     lookups |-> 1, compares |-> IF why = "no user" THEN 0 ELSE 1]

\* authApp.post('/users/login') from the test of username and password on;
\* lookups and compares count its calls of findUserByUsernameInternal and
\* bcrypt.compare
login(username, password, ms) ==
    IF username = "" \/ password = ""
    THEN [status |-> 400, error |-> "Username and password required",
          token |-> EmptyToken, user |-> NoUser,
          lookups |-> 0, compares |-> 0]
    ELSE LET found == findUserByUsernameInternal(username) IN
         IF found = {}
         THEN loginRefusal("no user")
         ELSE LET user == CHOOSE u \in found : TRUE IN
              IF ~bcryptCompare(password, user.password)
              THEN loginRefusal("wrong password")
              ELSE [status |-> 200, error |-> "", lookups |-> 1, compares |-> 1,
                    token |-> jwtSign([id |-> user.id, username |-> user.username,
                                       admin |-> user.admin],
                                      jwtSecret, tokenLifetime, ms),
                    user |-> WithoutPassword(user)]

\* auth.ts:175  const { username, password } =
\*                  await c.req.json().catch(() => ({}))
\* a body that is no JSON reads as {}; a field the body lacks reads as "";
\* the JSON body null cannot be destructured, the TypeError leaves the
\* handler and the framework answers 500
loginBody(body) ==
    IF body.kind = "null"
    THEN [thrown |-> TRUE, username |-> "", password |-> ""]
    ELSE IF body.kind = "unparsable"
    THEN [thrown |-> FALSE, username |-> "", password |-> ""]
    ELSE [thrown |-> FALSE, username |-> body.username,
          password |-> body.password]

\* authApp.post('/users/login') from the request body on
loginRequest(body, ms) ==
    LET b == loginBody(body) IN
    IF b.thrown
    THEN [status |-> 500, error |-> "Internal Server Error",
          token |-> EmptyToken, user |-> NoUser,
          lookups |-> 0, compares |-> 0]
    ELSE login(b.username, b.password, ms)

(* ---------------------------- registration --------------------------- *)
\* z.string().email() on the addresses clients send here
IsEmail(email) == email \notin {"", "not-an-email"}

\* RegisterSchema.safeParse
RegisterSchema(body) ==
    /\ Len(body.username) >= 3
    /\ IsEmail(body.email)
    /\ Len(body.password) >= 8

\* username.toLowerCase().replace(/[^a-z0-9]+/g, '-') on the usernames
\* clients send here
SlugBase(username) == IF username = "Nyr" THEN "nyr" ELSE username

\* auth.ts:149  the slug of a new user
UserSlug(username, ms) == <<SlugBase(username), ms>>

\* a console.log / console.error call: the line of auth.ts that makes it
\* and the request's values its arguments print
LogLine(line, says) == [line |-> line, says |-> says]

\* auth.ts:121  console.log("[Register Route] Request body:", body)
LogBody(body) == LogLine(121, {body.username, body.email, body.password})

\* register up to its findFirst
Register(body) ==
    IF ~body.parsable
    THEN [pc |-> "done", status |-> 400, error |-> "Invalid JSON body",
          log |-> <<LogLine(113, {}), LogLine(118, {})>>]
    ELSE IF ~RegisterSchema(body)
    THEN [pc |-> "done", status |-> 400, error |-> "Invalid registration data",
          log |-> <<LogLine(113, {}), LogBody(body), LogLine(130, {})>>]
    ELSE [pc |-> "precheck", status |-> 0, error |-> "",
          log |-> <<LogLine(113, {}), LogBody(body),
                    LogLine(135, {body.username, body.email})>>]

\* prisma.users.findFirst({ where: { OR: [{ username }, { email }] } })
ExistingUser(username, email) ==
    { u \in users : u.username = username \/ u.email = email }

\* the unique indexes of table users a new row would break, in the words of
\* P2002's meta.target
UniqueViolation(row) ==
    { f \in {"username", "email", "slug"} :
        \E u \in users : u[f] = row[f] }

\* a catch that takes P2002 for a server error
CreateRefused_ServerError(f) ==
    [status |-> 500, error |-> "Registration failed due to server error",
     field |-> ""]

\* auth.ts:163  the catch of register on P2002, f being meta.target
CreateRefused(f) ==
    [status |-> 409, error |-> "Field already exists", field |-> f]

\* the admin flag taken from the request
NewUserAdmin_FromBody(body) == body.username = "nyr"

\* auth.ts:154  admin: false
NewUserAdmin(body) == FALSE

\* the row register hands to prisma.users.create
UserRow(reg, id) ==
    [id |-> id, username |-> reg.username, email |-> reg.email,
     password |-> bcryptHash(reg.password),
     admin |-> NewUserAdmin(reg), slug |-> reg.slug]

(* ----------------- DELETE and PATCH /transactions/:slug --------------- *)
\* part_002: the middleware in front of the handlers of the two routes
EditMiddleware(method) == <<>>

\* getTransaction: prisma.transactions.findUnique({ where: { slug } })
getTransaction(slug) == { t \in transactions : t.slug = slug }

\* TransactionToUpdateSchema.safeParse on the fields the rows keep
validateUpdatedTransaction(body) ==
    /\ body.has_account => body.account_id >= 1
    /\ body.has_payment_method => body.payment_method_id \in 1..3

\* the row prisma.transactions.update writes: data spread over the row
UpdatedRow(row, body) ==
    [row EXCEPT !.account_id = IF body.has_account
                               THEN body.account_id ELSE @,
                !.payment_method_id = IF body.has_payment_method
                                      THEN body.payment_method_id ELSE @]

\* the handler from the answer of getTransaction to its write
EditLooked(edit) ==
    IF getTransaction(edit.slug) = {}
    THEN [edit EXCEPT !.pc = "done", !.status = 404,
                      !.error = "Category not found"]
    ELSE LET row == CHOOSE t \in getTransaction(edit.slug) : TRUE IN
         IF edit.method = "DELETE"
         THEN [edit EXCEPT !.pc = "write", !.found = row]
         ELSE IF ~edit.body.parsable
         THEN [edit EXCEPT !.pc = "done", !.found = row, !.status = 400,
                           !.error = "invalid json"]
         ELSE IF ~validateUpdatedTransaction(edit.body)
         THEN [edit EXCEPT !.pc = "done", !.found = row, !.status = 400,
                           !.error = "invalid data"]
         ELSE [edit EXCEPT !.pc = "write", !.found = row]

(* ----------------------------- GET routes ----------------------------- *)
\* the GET routes of each index.ts behind '/', and /auth/users/me of auth.ts
GetRoutes(a) ==
    IF a = "override"
    THEN {"/admin/accounts", "/admin/users", "/transactions",
          "/transactions/:username", "/my-accounts", "/auth/users/me"}
    ELSE {"/accounts", "/transactions",
          "/transactions/:username", "/my-accounts", "/auth/users/me"}

\* the middleware each route is registered with, in order
RouteMiddleware(a, route) ==
    IF a = "override"
    THEN IF route \in {"/admin/accounts", "/admin/users", "/transactions"}
         THEN <<"authMiddleware", "requireAdmin">>
         ELSE <<"authMiddleware">>
    ELSE IF route \in {"/accounts", "/transactions"}
         THEN <<"requireAdmin">>
         ELSE <<"authMiddleware">>

\* getTransactions(page): ten rows from row 10 * page on, newest id first
getTransactions(page) ==
    { t.id : t \in { x \in transactions :
          LET before == Cardinality({ y \in transactions : y.id > x.id })
          IN before >= 10 * page /\ before < 10 * page + 10 } }

\* getTransactionByUser(uname): the rows of the user of that name, none
\* when there is no such user
getTransactionByUser(uname) ==
    { t.id : t \in { x \in transactions :
          \E u \in users : u.username = uname /\ x.user_id = u.id } }

\* the self-or-admin test left out
MayRead_Anyone(loggedInUser, targetUsername) == TRUE

\* part_001:151, src/src/index.ts:139 (negated)
MayRead(loggedInUser, targetUsername) ==
    loggedInUser.username = targetUsername \/ loggedInUser.admin

Answer(status, error, list) == [status |-> status, error |-> error, list |-> list]

\* a handler that tests the length of the username first
GetUserTransactions_LengthFirst(a, loggedInUser, targetUsername) ==
    IF loggedInUser = NoUser
    THEN Answer(401, IF a = "override" THEN "Auth required (unexpected)"
                     ELSE "Authentication required", {})
    ELSE IF targetUsername = "" \/ Len(targetUsername) > 100
    THEN Answer(400, IF a = "override" THEN "Bad username"
                     ELSE "Invalid username parameter", {})
    ELSE IF ~MayRead(loggedInUser, targetUsername)
    THEN Answer(403, "Forbidden", {})
    ELSE Answer(200, "", getTransactionByUser(targetUsername))

\* app.get('/transactions/:username') of both index.ts; the 400 carries its
\* text under message
GetUserTransactions(a, loggedInUser, targetUsername) ==
    IF loggedInUser = NoUser
    THEN Answer(401, IF a = "override" THEN "Auth required (unexpected)"
                     ELSE "Authentication required", {})
    ELSE IF ~MayRead(loggedInUser, targetUsername)
    THEN Answer(403, "Forbidden", {})
    ELSE IF targetUsername = "" \/ Len(targetUsername) > 100
    THEN Answer(400, IF a = "override" THEN "Bad username"
                     ELSE "Invalid username parameter", {})
    ELSE Answer(200, "", getTransactionByUser(targetUsername))

\* the handler of a GET route, run when every middleware called next()
GetHandler(a, route, targetUsername, page, user) ==
    CASE route \in {"/admin/accounts", "/accounts"} ->
           Answer(200, "", { x.id : x \in accounts })
      [] route = "/admin/users" ->
           Answer(200, "", { u.id : u \in users })
      [] route = "/transactions" ->
           IF page < 0
           THEN Answer(400, IF a = "override" THEN "Bad page"
                            ELSE "Invalid page query parameter", {})
           ELSE Answer(200, "", getTransactions(page))
      [] route = "/transactions/:username" ->
           GetUserTransactions(a, user, targetUsername)
      [] route = "/my-accounts" ->
           IF user = NoUser
           THEN Answer(401, IF a = "override" THEN "Auth required (unexpected)"
                            ELSE "Authentication required", {})
           ELSE Answer(200, "", { x.id : x \in { y \in accounts :
                                                  y.user_id = user.id } })
      [] route = "/auth/users/me" ->
           IF user = NoUser
           THEN Answer(401, "Not authenticated (unexpected)", {})
           ELSE IF \A u \in users : u.id # user.id
           THEN Answer(404, "User not found", {})
           ELSE Answer(200, "", {user.id})

(* ------------------------------ actions ------------------------------- *)
Init ==
    /\ now = 0
    /\ users = SeedUsers
    /\ accounts = SeedAccounts
    /\ transactions = SeedTransactions
    /\ nextTxId = 31
    /\ issued = {}
    /\ reqs = [r \in ReqIds |-> IdleReq]
    /\ app \in {"override", "plain"}
    /\ nextUserId = 4
    /\ gets = [g \in GetIds |-> IdleGet]
    /\ regs = [k \in RegIds |-> IdleReg]
    /\ logins = {}
    /\ edits = [e \in EditIds |-> IdleEdit]

\* the clock moves by a millisecond
TickMs ==
    /\ now % 1000 < MaxMs
    /\ now' = now + 1
    /\ UNCHANGED <<users, accounts, transactions, nextTxId, issued, reqs, app,
                 nextUserId, gets, regs, logins, edits>>

\* the clock moves by a whole token lifetime
TickLifetime ==
    /\ ClockTimestamp(now) \div tokenLifetime < MaxPeriods
    /\ now' = now + tokenLifetime * 1000
    /\ UNCHANGED <<users, accounts, transactions, nextTxId, issued, reqs, app,
                 nextUserId, gets, regs, logins, edits>>

\* POST /auth/users/login; the client keeps the token of a 200
Login ==
    /\ Cardinality(issued) < MaxLogins
    /\ \E c \in Credentials :
          LET resp == login(c[1], c[2], now) IN
          issued' = IF resp.status = 200
                    THEN issued \cup {[token |-> resp.token, username |-> c[1]]}
                    ELSE issued
    /\ UNCHANGED <<now, users, accounts, transactions, nextTxId, reqs, app,
                 nextUserId, gets, regs, logins, edits>>

\* whether the request brings a parsable token whose exp the clock has
\* reached (history: what the client sent and when, not what verify said)
PastExpiry(header, ms) ==
    /\ header.present
    /\ header.token.kind = "jwt"
    /\ ClockTimestamp(ms) >= header.token.exp

\* the requests that are being served
InFlight == { q \in ReqIds : reqs[q].pc \notin {"idle", "done"} }

\* a POST /transactions arrives with one of these headers and, behind
\* authMiddleware, one of these bodies: authMiddleware, then the handler up
\* to its first store call
ArriveWith(r, headers, bodies) ==
    /\ reqs[r].pc = "idle"
    /\ r > 1 => reqs[r - 1].pc # "idle"
    /\ \E header \in headers :
          LET a == authMiddleware(header, now)
              base == [IdleReq EXCEPT !.header = header,
                                      !.pastExpiry = PastExpiry(header, now),
                                      !.user = a.user, !.handled = a.next,
                                      !.during = InFlight,
                                      !.logged = a.logged]
          IN IF ~a.next
             THEN reqs' = [reqs EXCEPT ![r] = Returned(
                      [base EXCEPT !.pc = "done", !.status = a.status,
                                   !.error = a.error])]
             ELSE \E body \in bodies :
                    LET h == IF app = "override"
                             THEN PostTransactions(a.user, body)
                                    @@ [slug |-> NoSlug]
                             ELSE PostTransactionsPlain(a.user, body, now)
                    IN reqs' = [reqs EXCEPT ![r] = Returned(
                          [base EXCEPT !.body = body, !.pc = h.pc,
                                       !.status = h.status, !.error = h.error,
                                       !.finalUserId = h.finalUserId,
                                       !.slug = h.slug])]
    /\ UNCHANGED <<now, users, accounts, transactions, nextTxId, issued, app,
                 nextUserId, gets, regs, logins, edits>>

\* a POST /transactions arrives
Arrive(r) == ArriveWith(r, Headers, Bodies)

\* an identity context kept in one variable of the module: after an await
\* the handler finds the context of the request that arrived last
loggedInUser_Shared(r) ==
    LET last == CHOOSE q \in ReqIds :
                    /\ reqs[q].pc # "idle"
                    /\ \A p \in ReqIds : reqs[p].pc # "idle" => p <= q
    IN reqs[last].user

\* const loggedInUser = c.get('user'), a constant of the handler's own call:
\* what the handler of r holds when it resumes after an await
loggedInUser(r) == reqs[r].user

\* the store answers the handler's lookup and the handler runs on to the
\* insert call
Lookup(r) ==
    /\ reqs[r].pc \in {"lookupUser", "lookupAccount"}
    /\ LET req == [reqs[r] EXCEPT !.user = loggedInUser(r)] IN
       reqs' = [reqs EXCEPT ![r] = Returned(
                  [(IF app = "override"
                    THEN PostTransactionsLookedUp(req, now)
                    ELSE PostTransactionsPlainLookedUp(req, now))
                   EXCEPT !.lookups = @ + 1])]
    /\ UNCHANGED <<now, users, accounts, transactions, nextTxId, issued, app,
                 nextUserId, gets, regs, logins, edits>>

\* the store runs the insert; the handler answers 201, or 500 from its catch
Insert(r) ==
    /\ reqs[r].pc = "insert"
    /\ LET row == TxRow(r, nextTxId) IN
       IF InsertAccepted(row)
       THEN /\ transactions' = transactions \cup {row}
            /\ reqs' = [reqs EXCEPT ![r] = Returned(
                          [@ EXCEPT !.pc = "done", !.status = 201,
                                    !.inserts = @ + 1])]
       ELSE /\ transactions' = transactions
            /\ reqs' = [reqs EXCEPT ![r] = Returned(
                          [@ EXCEPT !.pc = "done",
                                    !.status = createFailed(app).status,
                                    !.inserts = @ + 1,
                                    !.error = createFailed(app).error])]
    /\ nextTxId' = nextTxId + 1
    /\ UNCHANGED <<now, users, accounts, issued, app,
                 nextUserId, gets, regs, logins, edits>>

\* a GET request arrives and is served: the middleware of its route, then
\* the handler with its read of the store
GetArrive(g) ==
    /\ gets[g].pc = "idle"
    /\ g > 1 => gets[g - 1].pc # "idle"
    /\ \E header \in Headers, route \in GetRoutes(app) :
       \E targetUsername \in (IF route = "/transactions/:username"
                               THEN TargetUsernames ELSE {""}),
          page \in (IF route = "/transactions" THEN Pages ELSE {0}) :
          LET st == RunChain(RouteMiddleware(app, route), header, now,
                             [stages |-> <<>>, next |-> TRUE, status |-> 0,
                              error |-> "", user |-> NoUser, ctxIn |-> NoUser])
              h == GetHandler(app, route, targetUsername, page, st.user)
              base == [IdleGet EXCEPT !.pc = "done", !.route = route,
                                      !.target = targetUsername, !.page = page,
                                      !.header = header,
                                      !.pastExpiry = PastExpiry(header, now),
                                      !.user = st.user, !.ctxIn = st.ctxIn]
          IN gets' = [gets EXCEPT ![g] =
                IF st.next
                THEN [base EXCEPT !.stages = Append(st.stages, "handler"),
                                  !.status = h.status, !.error = h.error,
                                  !.list = h.list]
                ELSE [base EXCEPT !.stages = st.stages, !.status = st.status,
                                  !.error = st.error]]
    /\ UNCHANGED <<now, users, accounts, transactions, nextTxId, issued, reqs,
                   app, nextUserId, regs, logins, edits>>

\* the connection to the store is lost under a lookup of POST
\* /transactions: the handler's catch answers 500; the target lookup of
\* part_001 has no catch and the error goes to the framework, which answers
\* 500
LookupLost(r) ==
    /\ reqs[r].pc \in {"lookupUser", "lookupAccount"}
    /\ reqs' = [reqs EXCEPT ![r] = Returned(
                  [@ EXCEPT !.pc = "done", !.status = 500,
                            !.lookups = @ + 1,
                            !.error = IF app = "plain"
                                      THEN "Server error verifying account"
                                      ELSE IF reqs[r].pc = "lookupAccount"
                                      THEN "DB error verifying account"
                                      ELSE "Internal Server Error"])]
    /\ UNCHANGED <<now, users, accounts, transactions, nextTxId, issued, app,
                   nextUserId, gets, regs, logins, edits>>

\* a handler that calls createTransaction again when the connection fails
InsertLost_Retried(r) ==
    /\ reqs[r].pc = "insert"
    /\ reqs' = [reqs EXCEPT ![r].inserts = @ + 1]
    /\ UNCHANGED <<now, users, accounts, transactions, nextTxId, issued, app,
                   nextUserId, gets, regs, logins, edits>>

\* the connection to the store is lost under the insert, which does not
\* reach the table: prisma.transactions.create throws, createTransaction
\* throws on, and the handler's catch answers 500
InsertLost(r) ==
    /\ reqs[r].pc = "insert"
    /\ reqs' = [reqs EXCEPT ![r] = Returned(
                  [@ EXCEPT !.pc = "done",
                            !.status = createFailed(app).status,
                            !.inserts = @ + 1,
                            !.error = createFailed(app).error])]
    /\ UNCHANGED <<now, users, accounts, transactions, nextTxId, issued, app,
                   nextUserId, gets, regs, logins, edits>>

\* a DELETE or PATCH /transactions/:slug arrives: the middleware of the
\* route runs, and the handler calls getTransaction
EditArrive(e) ==
    /\ edits[e].pc = "idle"
    /\ e > 1 => edits[e - 1].pc # "idle"
    /\ \E method \in {"DELETE", "PATCH"}, slug \in EditSlugs,
          header \in {NoHeader} \cup IssuedHeaders :
       \E body \in (IF method = "PATCH" THEN PatchBodies ELSE {NoPatch}) :
          LET st == RunChain(EditMiddleware(method), header, now,
                             [stages |-> <<>>, next |-> TRUE, status |-> 0,
                              error |-> "", user |-> NoUser, ctxIn |-> NoUser])
              base == [IdleEdit EXCEPT !.method = method, !.slug = slug,
                                       !.header = header, !.body = body]
          IN edits' = [edits EXCEPT ![e] =
                IF st.next
                THEN [base EXCEPT !.pc = "lookup"]
                ELSE [base EXCEPT !.pc = "done", !.status = st.status,
                                  !.error = st.error]]
    /\ UNCHANGED <<now, users, accounts, transactions, nextTxId, issued, reqs,
                   app, nextUserId, gets, regs, logins>>

\* the store answers getTransaction: 404, or (PATCH) the body is parsed
\* and validated, 400, or on to the write
EditLookup(e) ==
    /\ edits[e].pc = "lookup"
    /\ edits' = [edits EXCEPT ![e] = EditLooked(edits[e])]
    /\ UNCHANGED <<now, users, accounts, transactions, nextTxId, issued, reqs,
                   app, nextUserId, gets, regs, logins>>

\* the store runs prisma.transactions.delete or update by slug: 204 or 200;
\* a row that is gone by now, or an account_id that is no account, makes the
\* call throw, which DELETE answers from its catch and PATCH leaves to the
\* framework
EditWrite(e) ==
    /\ edits[e].pc = "write"
    /\ LET rows == getTransaction(edits[e].slug)
           row == CHOOSE t \in rows : TRUE
           new == UpdatedRow(row, edits[e].body)
       IN IF rows = {}
          THEN /\ transactions' = transactions
               /\ edits' = [edits EXCEPT ![e].pc = "done", ![e].status = 500,
                                         ![e].error =
                                             IF edits[e].method = "DELETE"
                                             THEN "Internal server error"
                                             ELSE "Internal Server Error"]
          ELSE IF edits[e].method = "DELETE"
          THEN /\ transactions' = transactions \ {row}
               /\ edits' = [edits EXCEPT ![e].pc = "done", ![e].status = 204]
          ELSE IF \E a \in accounts : a.id = new.account_id
          THEN /\ transactions' = (transactions \ {row}) \cup {new}
               /\ edits' = [edits EXCEPT ![e].pc = "done", ![e].status = 200]
          ELSE /\ transactions' = transactions
               /\ edits' = [edits EXCEPT ![e].pc = "done", ![e].status = 500,
                                         ![e].error = "Internal Server Error"]
    /\ UNCHANGED <<now, users, accounts, nextTxId, issued, reqs, app,
                   nextUserId, gets, regs, logins>>

\* POST /auth/users/login with the body as the client sent it, and its
\* response kept
LoginPosted ==
    /\ Cardinality(logins) < MaxLogins
    /\ \E body \in LoginBodies :
          LET resp == loginRequest(body, now) IN
          /\ logins' = logins \cup
                {[sent |-> body, at |-> now, status |-> resp.status,
                  error |-> resp.error, token |-> resp.token,
                  lookups |-> resp.lookups, compares |-> resp.compares]}
          /\ issued' = IF resp.status = 200
                       THEN issued \cup {[token |-> resp.token,
                                           username |-> body.username]}
                       ELSE issued
    /\ UNCHANGED <<now, users, accounts, transactions, nextTxId, reqs, app,
                   nextUserId, gets, regs, edits>>

\* a POST /auth/users/register arrives: the body is parsed and validated
RegArrive(k) ==
    /\ regs[k].pc = "idle"
    /\ k > 1 => regs[k - 1].pc # "idle"
    /\ \E body \in RegBodies :
          LET h == Register(body) IN
          regs' = [regs EXCEPT ![k] =
                     [IdleReg EXCEPT !.pc = h.pc, !.status = h.status,
                                     !.error = h.error, !.log = h.log,
                                     !.username = body.username,
                                     !.email = body.email,
                                     !.password = body.password]]
    /\ UNCHANGED <<now, users, accounts, transactions, nextTxId, issued, reqs,
                   app, nextUserId, gets, logins, edits>>

\* the store answers findFirst: 409, or on to bcrypt.hash
RegPrecheck(k) ==
    /\ regs[k].pc = "precheck"
    /\ regs' = [regs EXCEPT ![k] =
                  IF ExistingUser(regs[k].username, regs[k].email) # {}
                  THEN [@ EXCEPT !.pc = "done", !.status = 409,
                                 !.error = "Username or email already exists",
                                 !.log = Append(@, LogLine(140,
                                     {regs[k].username, regs[k].email}))]
                  ELSE [@ EXCEPT !.pc = "hash", !.passedPrecheck = TRUE,
                                 !.log = Append(@, LogLine(143,
                                     {regs[k].username}))]]
    /\ UNCHANGED <<now, users, accounts, transactions, nextTxId, issued, reqs,
                   app, nextUserId, gets, logins, edits>>

\* bcrypt.hash resolves: the slug is taken from the clock and
\* prisma.users.create is called
RegHashed(k) ==
    /\ regs[k].pc = "hash"
    /\ regs' = [regs EXCEPT ![k].pc = "create",
                            ![k].slug = UserSlug(regs[k].username, now),
                            ![k].log = @ \o <<LogLine(146, {regs[k].username}),
                                               LogLine(150, {}),
                                               LogLine(152, {regs[k].username})>>]
    /\ UNCHANGED <<now, users, accounts, transactions, nextTxId, issued, reqs,
                   app, nextUserId, gets, logins, edits>>

\* the store runs the insert: 201, or P2002 and 409 naming one of the
\* unique indexes the row breaks
RegCreate(k) ==
    /\ regs[k].pc = "create"
    /\ LET row == UserRow(regs[k], nextUserId) IN
       IF UniqueViolation(row) = {}
       THEN /\ users' = users \cup {row}
            /\ regs' = [regs EXCEPT ![k].pc = "done", ![k].status = 201,
                                    ![k].created = row.id,
                                    ![k].response = WithoutPassword(row),
                                    ![k].log = Append(@,
                                        LogLine(156, {row.username}))]
       ELSE /\ users' = users
            /\ \E f \in UniqueViolation(row) :
                  LET c == CreateRefused(f) IN
                  regs' = [regs EXCEPT ![k].pc = "done", ![k].status = c.status,
                                      ![k].error = c.error, ![k].field = c.field,
                                      ![k].log = Append(@, LogLine(162, {f}))]
    /\ nextUserId' = nextUserId + 1
    /\ UNCHANGED <<now, accounts, transactions, nextTxId, issued, reqs, app,
                   gets, logins, edits>>

\* POST /auth/users/login with its response kept: known and right tell
\* whether the store had the username, and that password for it, when the
\* response was made
LoginAnswered ==
    /\ Cardinality(logins) < MaxLogins
    /\ \E c \in Credentials :
          LET resp == login(c[1], c[2], now) IN
          /\ logins' = logins \cup
                {[username |-> c[1], password |-> c[2],
                  known |-> \E u \in users : u.username = c[1],
                  right |-> \E u \in users : /\ u.username = c[1]
                                              /\ u.password = bcryptHash(c[2]),
                  status |-> resp.status,
                  body |-> IF resp.status = 200
                           THEN [user |-> resp.user, token |-> resp.token,
                                 expiresIn |-> tokenLifetime]
                           ELSE [error |-> resp.error]]}
          /\ issued' = IF resp.status = 200
                       THEN issued \cup {[token |-> resp.token, username |-> c[1]]}
                       ELSE issued
    /\ UNCHANGED <<now, users, accounts, transactions, nextTxId, reqs, app,
                   nextUserId, gets, regs, edits>>

Next ==
    \/ TickMs
    \/ TickLifetime
    \/ Login
    \/ \E r \in ReqIds : Arrive(r)
    \/ \E r \in ReqIds : Lookup(r)
    \/ \E r \in ReqIds : Insert(r)

Spec == Init /\ [][Next]_vars

\* POST /transactions with a store whose connection may fail; the clock
\* stands still, so two requests of one identity meet in one millisecond
NextFail ==
    \/ Login
    \/ \E r \in ReqIds : Arrive(r)
    \/ \E r \in ReqIds : Lookup(r)
    \/ \E r \in ReqIds : Insert(r)
    \/ \E r \in ReqIds : LookupLost(r)
    \/ \E r \in ReqIds : InsertLost(r)

SpecFail == Init /\ [][NextFail]_vars

\* the index.ts of part_002 serves: it has the DELETE and PATCH routes
InitEdit ==
    /\ now = 0
    /\ users = SeedUsers
    /\ accounts = SeedAccounts
    /\ transactions = SeedTransactions
    /\ nextTxId = 31
    /\ issued = {}
    /\ reqs = [r \in ReqIds |-> IdleReq]
    /\ app = "first"
    /\ nextUserId = 4
    /\ gets = [g \in GetIds |-> IdleGet]
    /\ regs = [k \in RegIds |-> IdleReg]
    /\ logins = {}
    /\ edits = [e \in EditIds |-> IdleEdit]

\* DELETE and PATCH /transactions/:slug, with the tokens of login at hand
NextEdit ==
    \/ Login
    \/ \E e \in EditIds : EditArrive(e)
    \/ \E e \in EditIds : EditLookup(e)
    \/ \E e \in EditIds : EditWrite(e)

SpecEdit == InitEdit /\ [][NextEdit]_vars

\* POST /transactions with tokens that carry the process secret and any
\* payload
NextPayload ==
    \/ TickLifetime
    \/ \E r \in ReqIds : ArriveWith(r, SignedHeaders, Bodies)
    \/ \E r \in ReqIds : Lookup(r)
    \/ \E r \in ReqIds : Insert(r)

SpecPayload == Init /\ [][NextPayload]_vars

\* POST /auth/users/login with every kind of body, at several times
NextLogin ==
    \/ TickMs
    \/ TickLifetime
    \/ LoginPosted

SpecLogin == Init /\ [][NextLogin]_vars

\* the GET routes alone: logins, the clock past a token lifetime, and GET
\* requests
NextRead ==
    \/ TickLifetime
    \/ Login
    \/ \E g \in GetIds : GetArrive(g)

SpecRead == Init /\ [][NextRead]_vars

\* the payload rules: one POST /transactions of a logged-in client with a
\* payload of FieldBodies
NextValidate ==
    \/ Login
    \/ \E r \in {1} : ArriveWith(r, IssuedHeaders, FieldBodies)
    \/ \E r \in {1} : Lookup(r)
    \/ \E r \in {1} : Insert(r)

SpecValidate == Init /\ [][NextValidate]_vars

\* registration and login: registrations interleave at their awaits
NextAccounts ==
    \/ TickMs
    \/ LoginAnswered
    \/ \E k \in RegIds : RegArrive(k)
    \/ \E k \in RegIds : RegPrecheck(k)
    \/ \E k \in RegIds : RegHashed(k)
    \/ \E k \in RegIds : RegCreate(k)

SpecAccounts == Init /\ [][NextAccounts]_vars

\* the requests that have arrived, of all kinds
Started ==
    Cardinality({ r \in ReqIds : reqs[r].pc # "idle" })
    + Cardinality({ g \in GetIds : gets[g].pc # "idle" })
    + Cardinality({ k \in RegIds : regs[k].pc # "idle" })

\* every endpoint: login, register, the GET routes and POST /transactions,
\* MaxStarted requests in all.  The clock stands still: no write to table
\* users reads it.
NextAll ==
    \/ Login
    \/ Started < MaxStarted /\ \E r \in ReqIds : Arrive(r)
    \/ \E r \in ReqIds : Lookup(r)
    \/ \E r \in ReqIds : Insert(r)
    \/ Started < MaxStarted /\ \E g \in GetIds : GetArrive(g)
    \/ Started < MaxStarted /\ \E k \in RegIds : RegArrive(k)
    \/ \E k \in RegIds : RegPrecheck(k)
    \/ \E k \in RegIds : RegHashed(k)
    \/ \E k \in RegIds : RegCreate(k)

SpecAll == Init /\ [][NextAll]_vars

(* ------------------------------ claims -------------------------------- *)
\* the vocabulary of the claims, stated on the tables and on what the
\* client sent, apart from the operators of the handlers
Answered(r) == reqs[r].pc = "done"
Authenticated(r) == reqs[r].pc # "idle" /\ reqs[r].handled
RowsOf(r) == { t \in transactions : t.req = r }
AccountsOf(uid) == { a.id : a \in { x \in accounts : x.user_id = uid } }
UserIds == { u.id : u \in users }
PayloadValid(b) ==
    /\ b.parsable
    /\ b.account_id >= 1
    /\ b.payment_method_id \in 1..3
    /\ b.transaction_type = "income" \/ b.transaction_type = "expense"
    /\ b.category \in {"matur", "ibud", "samgongur", "afthreying", "laun", "annad"}
    /\ b.amount >= 1 /\ b.amount <= 1000000
    /\ b.description \in 1..1024
\* the payload is valid for the index.ts that serves it: only the override
\* handler's schema reads target_user_id
PayloadAccepted(b) ==
    PayloadValid(b) /\ (app = "override" /\ b.has_target => b.target_user_id >= 1)

\* C1: a non-admin that POSTs a valid payload whose account_id is not an
\* account it owns is never past the ownership lookup, is answered 403, and
\* persists nothing, whether the account is someone else's or does not exist
C1_NonOwnerRejected ==
    \A r \in ReqIds :
        ( /\ Authenticated(r)
          /\ ~reqs[r].user.admin
          /\ PayloadAccepted(reqs[r].body)
          /\ reqs[r].body.account_id \notin AccountsOf(reqs[r].user.id) )
        => /\ reqs[r].pc \in {"lookupAccount", "done"}
           /\ Answered(r) => reqs[r].status = 403
           /\ RowsOf(r) = {}

\* C1 witness: one run answers 403 both for an account of another identity
\* and for an account that does not exist
C1_Witness ==
    \E r1, r2 \in ReqIds :
        /\ Answered(r1) /\ Answered(r2)
        /\ reqs[r1].handled /\ reqs[r2].handled
        /\ ~reqs[r1].user.admin /\ ~reqs[r2].user.admin
        /\ PayloadAccepted(reqs[r1].body) /\ PayloadAccepted(reqs[r2].body)
        /\ \E a \in accounts : /\ a.id = reqs[r1].body.account_id
                                /\ a.user_id # reqs[r1].user.id
        /\ \A a \in accounts : a.id # reqs[r2].body.account_id
        /\ reqs[r1].status = 403 /\ reqs[r2].status = 403

\* the workflow has nothing to refuse in the request: the payload is valid
\* and the ownership decision (or the override's target lookup) passes
Approvable(r) ==
    /\ Authenticated(r)
    /\ PayloadAccepted(reqs[r].body)
    /\ IF app = "override" /\ reqs[r].user.admin /\ reqs[r].body.has_target
       THEN /\ reqs[r].body.target_user_id \in UserIds
            /\ \E a \in accounts : a.id = reqs[r].body.account_id
       ELSE reqs[r].body.account_id \in AccountsOf(reqs[r].user.id)

Concurrent(r1, r2) == r1 \in reqs[r2].during \/ r2 \in reqs[r1].during

\* C2: two transaction-create requests by the same identity that are in
\* flight concurrently both end with a persisted record, and the two records
\* carry distinct slugs
C2_ConcurrentCreatesBothPersist ==
    \A r1, r2 \in ReqIds :
        ( /\ r1 # r2
          /\ Approvable(r1) /\ Approvable(r2)
          /\ reqs[r1].user.id = reqs[r2].user.id
          /\ Concurrent(r1, r2)
          /\ Answered(r1) /\ Answered(r2) )
        => /\ reqs[r1].status = 201 /\ reqs[r2].status = 201
           /\ \E t1 \in RowsOf(r1), t2 \in RowsOf(r2) : t1.slug # t2.slug

\* what the client sent, read apart from authMiddleware
BearerToken(r) == reqs[r].header.present /\ reqs[r].header.scheme = "Bearer"
Unparsable(r) == reqs[r].header.token.kind # "jwt"
BadSignature(r) ==
    reqs[r].header.token.kind = "jwt" /\ reqs[r].header.token.sig # jwtSecret
Expired(r) ==
    /\ reqs[r].header.token.kind = "jwt"
    /\ reqs[r].header.token.sig = jwtSecret
    /\ reqs[r].pastExpiry
Refused401(r) ==
    /\ Answered(r) /\ reqs[r].status = 401
    /\ ~reqs[r].handled /\ reqs[r].user = NoUser

\* C3: a request whose Authorization header is absent or does not start
\* with 'Bearer ' ends with 401, next is not invoked and no identity
\* context is set
C3_NoBearerHeaderRefused ==
    \A r \in ReqIds :
        (reqs[r].pc # "idle" /\ ~BearerToken(r))
        => Refused401(r) /\ RowsOf(r) = {}

\* C3 witness: a request without the header and a request with another
\* scheme have both been answered
C3_Witness ==
    \E r1, r2 \in ReqIds :
        /\ Answered(r1) /\ ~reqs[r1].header.present
        /\ Answered(r2) /\ reqs[r2].header.present
        /\ reqs[r2].header.scheme # "Bearer"
        /\ reqs[r1].status = 401 /\ reqs[r2].status = 401

\* C4: every kind of verification failure (unparsable, bad signature,
\* expired) ends with 401 and no downstream invocation; only the message
\* differs, 'Token expired' for expiry and 'Invalid token' for the others
C4_VerificationFailuresAlike ==
    \A r \in ReqIds :
        ( /\ reqs[r].pc # "idle" /\ BearerToken(r)
          /\ Unparsable(r) \/ BadSignature(r) \/ Expired(r) )
        => /\ Refused401(r)
           /\ reqs[r].error = IF Expired(r) THEN "Token expired" ELSE "Invalid token"

\* C4 witness: an expired token and a token with a bad signature have both
\* been refused
C4_Witness ==
    \E r1, r2 \in ReqIds :
        /\ BearerToken(r1) /\ Expired(r1) /\ reqs[r1].error = "Token expired"
        /\ BearerToken(r2) /\ BadSignature(r2) /\ reqs[r2].error = "Invalid token"
        /\ Refused401(r1) /\ Refused401(r2)

\* the stored identity that logged in for the token of request r
LoggedIn(r) ==
    { u \in users : \E i \in issued : /\ i.token = reqs[r].header.token
                                       /\ i.username = u.username }

\* C5: a token returned by login and presented before its expiry is
\* accepted, and the identity context has the id, username and admin flag
\* of the identity that logged in
C5_LoginTokenRoundTrip ==
    \A r \in ReqIds :
        ( /\ reqs[r].pc # "idle" /\ BearerToken(r)
          /\ reqs[r].header.token \in IssuedTokens
          /\ ~reqs[r].pastExpiry )
        => /\ reqs[r].handled
           /\ \A u \in LoggedIn(r) :
                 reqs[r].user = [id |-> u.id, username |-> u.username,
                                 admin |-> u.admin]

\* C5 witness: an admin and a non-admin have both been accepted with the
\* token of their login
C5_Witness ==
    \E r1, r2 \in ReqIds :
        /\ reqs[r1].handled /\ reqs[r2].handled
        /\ reqs[r1].header.token \in IssuedTokens
        /\ reqs[r2].header.token \in IssuedTokens
        /\ reqs[r1].user.admin /\ ~reqs[r2].user.admin
        /\ LoggedIn(r1) # {} /\ LoggedIn(r2) # {}

\* C6: a token of the service presented when its expiry (issued-at plus the
\* configured lifetime) has passed fails verification as expired, a token
\* signed with another secret fails as signature-invalid, and neither gets
\* an identity context
C6_ExpiredAndForgedRefused ==
    /\ \A i \in issued : i.token.exp = i.token.iat + tokenLifetime
    /\ \A r \in ReqIds :
          (reqs[r].pc # "idle" /\ BearerToken(r))
          => /\ Expired(r) => /\ reqs[r].logged = "jwt expired"
                              /\ reqs[r].error = "Token expired"
                              /\ Refused401(r)
             /\ BadSignature(r) => /\ reqs[r].logged = "invalid signature"
                                   /\ Refused401(r)

\* C6 witness: a token of login was refused after its expiry, and a token
\* signed with another secret was refused although its exp lies ahead
C6_Witness ==
    \E r1, r2 \in ReqIds :
        /\ Answered(r1) /\ BearerToken(r1) /\ Expired(r1)
        /\ reqs[r1].header.token \in IssuedTokens
        /\ Answered(r2) /\ BearerToken(r2) /\ BadSignature(r2)
        /\ ~reqs[r2].pastExpiry

\* an admin of the override handler sends a valid payload with a target
AdminOverride(r) ==
    /\ app = "override"
    /\ Authenticated(r)
    /\ reqs[r].user.admin
    /\ PayloadAccepted(reqs[r].body)
    /\ reqs[r].body.has_target

\* C7: an admin's valid payload whose target_user_id matches no stored
\* identity ends with 404 and leaves the persisted transactions unchanged
C7_OverrideTargetMissing ==
    \A r \in ReqIds :
        (AdminOverride(r) /\ reqs[r].body.target_user_id \notin UserIds)
        => /\ reqs[r].pc \in {"lookupUser", "done"}
           /\ Answered(r) => reqs[r].status = 404
           /\ RowsOf(r) = {}

\* C7 witness: such a request has been answered 404
C7_Witness ==
    \E r \in ReqIds :
        /\ AdminOverride(r) /\ reqs[r].body.target_user_id \notin UserIds
        /\ Answered(r) /\ reqs[r].status = 404

\* C8: an admin's valid payload with the target_user_id of an existing
\* identity T and an account of T is answered 201, and the persisted
\* transaction is owned by T
C8_OverrideCreatesForTarget ==
    \A r \in ReqIds :
        ( /\ AdminOverride(r)
          /\ reqs[r].body.target_user_id \in UserIds
          /\ reqs[r].body.account_id \in AccountsOf(reqs[r].body.target_user_id)
          /\ Answered(r) )
        => /\ reqs[r].status = 201
           /\ \E t \in RowsOf(r) : t.user_id = reqs[r].body.target_user_id

\* C9: a persisted transaction whose owner is not its requester was made
\* by an admin that gave the owner as target_user_id; the target_user_id
\* of a non-admin is ignored and the owner is the requester
C9_OwnerIsRequesterOrAdminTarget ==
    \A t \in { x \in transactions : x.req \in ReqIds } :
        LET q == reqs[t.req] IN
        /\ t.user_id # q.user.id
             => /\ q.user.admin
                /\ q.body.has_target
                /\ q.body.target_user_id = t.user_id
        /\ ~q.user.admin => t.user_id = q.user.id

\* C9 witness: a transaction owned by an admin's target, and a transaction
\* of a non-admin that sent a target_user_id, are both persisted
C9_Witness ==
    \E t1, t2 \in { x \in transactions : x.req \in ReqIds } :
        /\ t1.user_id # reqs[t1.req].user.id
        /\ reqs[t1.req].user.admin
        /\ ~reqs[t2.req].user.admin
        /\ reqs[t2.req].body.has_target
        /\ reqs[t2.req].body.target_user_id # t2.user_id

\* C10: an admin that POSTs without a target-user override is held to the
\* ownership check: with an account_id it does not own the request is
\* answered 403 and nothing is persisted
C10_AdminSelfOwnershipChecked ==
    \A r \in ReqIds :
        ( /\ Authenticated(r)
          /\ reqs[r].user.admin
          /\ PayloadAccepted(reqs[r].body)
          /\ ~reqs[r].body.has_target
          /\ reqs[r].body.account_id \notin AccountsOf(reqs[r].user.id) )
        => /\ reqs[r].pc \in {"lookupAccount", "done"}
           /\ Answered(r) => reqs[r].status = 403
           /\ RowsOf(r) = {}

\* C11: an admin's valid payload whose target_user_id is a stored identity
\* meets no ownership check: it is never answered 403, its insert is
\* attempted whatever account_id it names and whoever owns that account, and
\* a transaction it persists is owned by the target
C11_OverrideSkipsOwnership ==
    \A r \in ReqIds :
        (AdminOverride(r) /\ reqs[r].body.target_user_id \in UserIds)
        => /\ reqs[r].pc \in {"lookupUser", "insert", "done"}
           /\ Answered(r) => /\ reqs[r].inserts = 1
                             /\ reqs[r].status # 403
           /\ \A t \in RowsOf(r) : t.user_id = reqs[r].body.target_user_id

\* C11 witness: one override persisted a transaction on the account of a
\* third identity, another was taken to the insert with an account_id that
\* is no account
C11_Witness ==
    \E r1, r2 \in ReqIds :
        /\ AdminOverride(r1) /\ AdminOverride(r2)
        /\ reqs[r1].body.target_user_id \in UserIds
        /\ reqs[r2].body.target_user_id \in UserIds
        /\ \E a \in accounts :
              /\ a.id = reqs[r1].body.account_id
              /\ a.user_id \notin {reqs[r1].user.id, reqs[r1].body.target_user_id}
        /\ \E t \in RowsOf(r1) : t.user_id = reqs[r1].body.target_user_id
        /\ \A a \in accounts : a.id # reqs[r2].body.account_id
        /\ Answered(r2) /\ reqs[r2].inserts = 1

\* what a GET request went through, and what its client sent
Served(g) == gets[g].pc = "done"
StageRan(g, name) ==
    \E i \in DOMAIN gets[g].stages : gets[g].stages[i] = name
RanBefore(g, first, second) ==
    \E i, j \in DOMAIN gets[g].stages :
        i < j /\ gets[g].stages[i] = first /\ gets[g].stages[j] = second
\* the stored identities whose login returned the token of g, when that
\* token came as a Bearer token before its expiry
ValidTokenOf(g) ==
    { u \in users :
        /\ gets[g].header.present /\ gets[g].header.scheme = "Bearer"
        /\ ~gets[g].pastExpiry
        /\ \E i \in issued : /\ i.token = gets[g].header.token
                               /\ i.username = u.username }

\* C12: requireAdmin answers 403 and the handler does not run whenever the
\* identity context is absent or its admin flag is false; with a context
\* whose admin flag is true the handler runs and the context is the same
\* after requireAdmin as before
C12_RequireAdminGate ==
    \A g \in GetIds :
        (Served(g) /\ StageRan(g, "requireAdmin"))
        => /\ ~StageRan(g, "authMiddleware") => gets[g].ctxIn.id = 0
           /\ IF gets[g].ctxIn.id = 0 \/ gets[g].ctxIn.admin = FALSE
              THEN /\ gets[g].status = 403
                   /\ ~StageRan(g, "handler")
                   /\ gets[g].list = {}
              ELSE /\ StageRan(g, "handler")
                   /\ gets[g].user = gets[g].ctxIn

\* C12 witness: requireAdmin let the request of an admin through to a
\* handler that answered 200
C12_Witness ==
    \E g \in GetIds :
        /\ Served(g) /\ RanBefore(g, "requireAdmin", "handler")
        /\ gets[g].ctxIn.admin /\ gets[g].user = gets[g].ctxIn
        /\ gets[g].status = 200

\* the routes that list all accounts, all users and all transactions
AdminListings == {"/admin/accounts", "/accounts", "/admin/users", "/transactions"}

\* C13: on every admin-only listing route authMiddleware runs before
\* requireAdmin: a valid unexpired token of an admin reaches the handler and
\* gets 200, a valid token of a non-admin gets 403, and a request without a
\* valid token gets 401 (the page of /transactions being well formed)
C13_AdminListingsAuthenticateFirst ==
    \A g \in GetIds :
        (Served(g) /\ gets[g].route \in AdminListings /\ gets[g].page >= 0)
        => /\ StageRan(g, "authMiddleware")
           /\ StageRan(g, "requireAdmin")
                => RanBefore(g, "authMiddleware", "requireAdmin")
           /\ \A u \in ValidTokenOf(g) :
                 IF u.admin
                 THEN StageRan(g, "handler") /\ gets[g].status = 200
                 ELSE gets[g].status = 403
           /\ ValidTokenOf(g) = {} => gets[g].status = 401

\* C19: GET /transactions/:username answers with the transactions of the
\* target only to the target itself and to an admin; a non-admin that asks
\* for another username gets 403 and none of that user's transactions
C19_SelfOrAdminReads ==
    \A g \in GetIds :
        (Served(g) /\ gets[g].route = "/transactions/:username")
        => \A u \in ValidTokenOf(g) :
              LET rows == { t.id : t \in { x \in transactions :
                              \E o \in users : /\ o.username = gets[g].target
                                                /\ o.id = x.user_id } }
              IN /\ (u.username # gets[g].target /\ ~u.admin)
                      => /\ gets[g].status = 403
                         /\ gets[g].list \cap rows = {}
                 /\ gets[g].status = 200
                      => /\ u.username = gets[g].target \/ u.admin
                         /\ gets[g].list = rows

\* C19 witness: a non-admin asked for the transactions of a user that has
\* some and was answered 403
C19_Witness ==
    \E g \in GetIds :
        /\ Served(g) /\ gets[g].route = "/transactions/:username"
        /\ gets[g].status = 403
        /\ \E u \in ValidTokenOf(g) : ~u.admin /\ u.username # gets[g].target
        /\ \E t \in transactions, o \in users :
              o.username = gets[g].target /\ o.id = t.user_id

WellFormed(k) ==
    /\ regs[k].pc # "idle"
    /\ Len(regs[k].username) > 2
    /\ regs[k].email \notin {"", "not-an-email"}
    /\ Len(regs[k].password) > 7
\* a stored identity k did not create holds k's username or email
Taken(k) ==
    \E u \in users : /\ u.id # regs[k].created
                      /\ (u.username = regs[k].username
                          \/ u.email = regs[k].email)

\* C15: no two stored identities share a username or an email, and a
\* well-formed registration whose username or email another identity holds
\* has ended with 409 and created nothing, whatever the interleaving
C15_UniqueIdentities ==
    /\ \A u1, u2 \in users :
          (u1.username = u2.username \/ u1.email = u2.email) => u1 = u2
    /\ \A k \in RegIds :
          (WellFormed(k) /\ regs[k].pc = "done")
          => /\ Taken(k) => regs[k].status = 409 /\ regs[k].created = 0
             /\ regs[k].created # 0
                  <=> \E u \in users : /\ u.id = regs[k].created
                                        /\ u.username = regs[k].username
                                        /\ u.email = regs[k].email
             /\ regs[k].created # 0 <=> regs[k].status = 201

\* C15 witness: two registrations with one username both passed the
\* pre-check; one created the identity and the other ended with 409
C15_Witness ==
    \E k1, k2 \in RegIds :
        /\ k1 # k2
        /\ regs[k1].username = regs[k2].username
        /\ regs[k1].email # regs[k2].email
        /\ regs[k1].passedPrecheck /\ regs[k2].passedPrecheck
        /\ regs[k1].status = 201 /\ regs[k2].status = 409
        /\ regs[k2].created = 0

\* the admin flags table t holds for the identity of that id
AdminFlags(t, id) == { u.admin : u \in { x \in t : x.id = id } }

\* C16: no step of any endpoint changes the admin flag of a stored
\* identity, and an identity a step creates has admin = false
C16_AdminFlagImmutable ==
    [][ /\ \A u \in users : AdminFlags(users', u.id) = {u.admin}
        /\ \A v \in users' :
              (\A u \in users : u.id # v.id) => v.admin = FALSE ]_vars

\* C16 witness: an identity that was registered has logged in and been
\* served as a non-admin, the seeded admin still being the only admin
C16_Witness ==
    \E g \in GetIds, u \in users :
        /\ u.id \notin { x.id : x \in SeedUsers }
        /\ Served(g) /\ gets[g].status = 200
        /\ gets[g].user.id = u.id
        /\ ~u.admin /\ ~gets[g].user.admin
        /\ { x.id : x \in { y \in users : y.admin } } = {1}

\* C17: a payload that breaks a field rule (or is no JSON) is answered 400
\* before any store call and persists nothing; a payload that got past
\* validation, or was answered anything but 400, keeps every field rule
C17_InvalidPayloadRejected ==
    \A r \in ReqIds :
        Authenticated(r)
        => /\ ~PayloadValid(reqs[r].body)
                => /\ Answered(r) /\ reqs[r].status = 400
                   /\ reqs[r].inserts = 0 /\ RowsOf(r) = {}
           /\ (~Answered(r) \/ reqs[r].status # 400)
                => PayloadValid(reqs[r].body)

\* C17 witness: a payload whose only fault is an amount of 1000001 was
\* answered 400
C17_Witness ==
    \E r \in ReqIds :
        /\ Authenticated(r) /\ Answered(r) /\ reqs[r].status = 400
        /\ reqs[r].body.amount = 1000001
        /\ PayloadValid([reqs[r].body EXCEPT !.amount = 1000000])

NonAdminAsked(r) ==
    /\ Authenticated(r) /\ Answered(r)
    /\ ~reqs[r].user.admin
    /\ PayloadValid(reqs[r].body)

AccountExists(account_id) == \E a \in accounts : a.id = account_id

\* C20: a non-admin's request on an account that does not exist and a
\* non-admin's request on an account of another identity are both answered
\* 403, with the same body
C20_MissingAndForeignAccountAlike ==
    \A r, q \in ReqIds :
        ( /\ NonAdminAsked(r) /\ NonAdminAsked(q)
          /\ ~AccountExists(reqs[r].body.account_id)
          /\ AccountExists(reqs[q].body.account_id)
          /\ reqs[q].body.account_id \notin AccountsOf(reqs[q].user.id) )
        => /\ reqs[r].status = 403 /\ reqs[q].status = 403
           /\ reqs[r].error = reqs[q].error
           /\ RowsOf(r) = {} /\ RowsOf(q) = {}

\* C20 witness: one non-admin was answered for an account that does not
\* exist and for an account of another identity
C20_Witness ==
    \E r, q \in ReqIds :
        /\ NonAdminAsked(r) /\ NonAdminAsked(q)
        /\ reqs[r].user.id = reqs[q].user.id
        /\ ~AccountExists(reqs[r].body.account_id)
        /\ AccountExists(reqs[q].body.account_id)
        /\ reqs[q].body.account_id \notin AccountsOf(reqs[q].user.id)
        /\ reqs[r].status = 403

\* the row a registration created holds the hash of its password
StoredPasswordIsHash ==
    \A k \in RegIds, u \in users :
        u.id = regs[k].created
        => /\ u.password = bcryptHash(regs[k].password)
           /\ u.password # regs[k].password

\* C21: a stored identity holds the hash of its password and not the
\* password, and no console line written for a registration prints the
\* password the request carried
C21_PasswordNeverStoredOrLogged ==
    /\ StoredPasswordIsHash
    /\ \A k \in RegIds : \A i \in DOMAIN regs[k].log :
           regs[k].password = "" \/ regs[k].password \notin regs[k].log[i].says

\* the identity a response carries has the fields of the stored row u but
\* its password, and no field of it holds password or its hash
IdentityWithoutPassword(identity, u, password) ==
    /\ DOMAIN identity = DOMAIN u \ {"password"}
    /\ \A f \in DOMAIN identity : identity[f] = u[f]
    /\ \A f \in {"username", "email"} : identity[f] # password
    /\ identity.slug # bcryptHash(password)

\* C22: the body of a 201 of register and the user of a 200 of login are
\* the stored identity without its password field, cleartext or hash
C22_ResponsesOmitPassword ==
    /\ \A k \in RegIds :
           regs[k].status = 201
           => \E u \in users :
                 /\ u.id = regs[k].created
                 /\ IdentityWithoutPassword(regs[k].response, u,
                                            regs[k].password)
    /\ \A l \in logins :
           l.status = 200
           => /\ DOMAIN l.body = {"user", "token", "expiresIn"}
              /\ \E u \in users :
                    /\ u.username = l.username
                    /\ IdentityWithoutPassword(l.body.user, u, l.password)

\* C22 witness: an identity was registered with 201 and then logged in
\* with 200
C22_Witness ==
    \E k \in RegIds, l \in logins :
        /\ regs[k].status = 201 /\ l.status = 200
        /\ l.body.user.id = regs[k].created
        /\ l.password = regs[k].password

\* the identities whose login returned the token edit e carried
EditorOf(e) ==
    { u \in users :
        /\ edits[e].header.present /\ edits[e].header.scheme = "Bearer"
        /\ \E i \in issued : /\ i.token = edits[e].header.token
                               /\ i.username = u.username }

\* edit e changed or removed a row
Wrote(e) == edits[e].pc = "done" /\ edits[e].status \in {200, 204}

\* C23: a DELETE or PATCH that changed or removed a row came with the token
\* of the row's owner or of an admin, and a seeded row is as it was unless
\* such a request changed or removed it
C23_EditsByOwnerOrAdmin ==
    /\ \A e \in EditIds :
          Wrote(e) => \E u \in EditorOf(e) :
                         u.admin \/ u.id = edits[e].found.user_id
    /\ \A t \in SeedTransactions :
          t \notin transactions
          => \E e \in EditIds : Wrote(e) /\ edits[e].found.id = t.id

\* the rows persisted for requests of non-admin requesters
NonAdminRows ==
    { t \in transactions : t.req \in ReqIds /\ ~reqs[t.req].user.admin }

\* C24: a persisted transaction that a non-admin created references an
\* account of the store whose owner is the transaction's owner
C24_NonAdminRowsOnOwnAccount ==
    \A t \in NonAdminRows :
        \E a \in accounts : a.id = t.account_id /\ a.user_id = t.user_id

\* C24 witness: a non-admin has a persisted transaction, and another
\* request of a non-admin on an account of someone else persisted nothing
C24_Witness ==
    \E t \in NonAdminRows, q \in ReqIds :
        /\ q # t.req /\ Answered(q) /\ Authenticated(q)
        /\ ~reqs[q].user.admin
        /\ PayloadValid(reqs[q].body)
        /\ \E a \in accounts : /\ a.id = reqs[q].body.account_id
                                 /\ a.user_id # reqs[q].user.id
        /\ RowsOf(q) = {}

\* an admin override whose target is stored and whose account_id is the id
\* of no account
OverrideOnNoAccount(r) ==
    /\ AdminOverride(r)
    /\ reqs[r].body.target_user_id \in UserIds
    /\ \A a \in accounts : a.id # reqs[r].body.account_id

\* C25: every persisted transaction names an account of the store, and an
\* admin override on an account_id that is no account, once answered, was
\* answered 500 after its one insert attempt and persisted nothing
C25_AccountAlwaysResolves ==
    /\ \A t \in transactions : \E a \in accounts : a.id = t.account_id
    /\ \A r \in ReqIds :
          OverrideOnNoAccount(r)
          => /\ RowsOf(r) = {}
             /\ Answered(r) => reqs[r].status = 500 /\ reqs[r].inserts = 1

\* C25 witness: an override on account 9 was answered 500 while an override
\* for the same target on a stored account was persisted
C25_Witness ==
    \E r, q \in ReqIds :
        /\ OverrideOnNoAccount(r) /\ Answered(r) /\ reqs[r].status = 500
        /\ AdminOverride(q) /\ reqs[q].status = 201
        /\ reqs[q].body.target_user_id = reqs[r].body.target_user_id
        /\ RowsOf(q) # {}

\* the identity the payload of r's own token names
TokenIdentity(r) ==
    [id |-> reqs[r].header.token.id,
     username |-> reqs[r].header.token.username,
     admin |-> reqs[r].header.token.adminClaim = "true"]

\* r is at an await of its handler
Suspended(r) == reqs[r].pc \in {"lookupUser", "lookupAccount", "insert"}

\* C26: at every point of every interleaving the identity context of a
\* request is the identity of its own token, a request refused by
\* authMiddleware has none, and the owner a handler writes is its own
\* requester or the target its own payload names
C26_ContextIsOwnToken ==
    \A r \in ReqIds :
        reqs[r].pc # "idle"
        => /\ IF Answered(r) /\ reqs[r].status = 401
              THEN reqs[r].user = NoUser /\ ~reqs[r].handled
              ELSE /\ reqs[r].handled
                   /\ reqs[r].user = TokenIdentity(r)
                   /\ reqs[r].user # NoUser
           /\ \A t \in RowsOf(r) :
                 t.user_id \in {reqs[r].header.token.id,
                                reqs[r].body.target_user_id}

\* C26 witness: two requests of different identities are suspended at the
\* same time, the later one having arrived while the earlier was in flight,
\* and each holds the identity of its own token
C26_Witness ==
    \E r, q \in ReqIds :
        /\ r # q /\ Suspended(r) /\ Suspended(q)
        /\ reqs[r].user.id # reqs[q].user.id
        /\ reqs[r].user = TokenIdentity(r) /\ reqs[q].user = TokenIdentity(q)
        /\ r \in reqs[q].during

\* C27: a request refused by authMiddleware, or whose payload the schema
\* refuses, is answered (401, 400) with no lookup and no insert made for it,
\* whatever account or target it names; a lookup is made once, for an
\* accepted payload; an insert is attempted only after that, and never for a
\* request the lookup refused
C27_StepsInOrder ==
    \A r \in ReqIds :
        reqs[r].pc # "idle"
        => /\ ~reqs[r].handled
                => /\ Answered(r) /\ reqs[r].status = 401
                   /\ reqs[r].lookups = 0 /\ reqs[r].inserts = 0
           /\ (reqs[r].handled /\ ~PayloadAccepted(reqs[r].body))
                => /\ Answered(r) /\ reqs[r].status = 400
                   /\ reqs[r].lookups = 0 /\ reqs[r].inserts = 0
           /\ reqs[r].lookups <= 1 /\ reqs[r].inserts <= 1
           /\ reqs[r].inserts = 1
                => \/ reqs[r].lookups = 1
                   \/ app = "plain" /\ reqs[r].user.admin
           /\ reqs[r].status \in {403, 404} => reqs[r].inserts = 0

\* C27 witness: an admin's payload with amount 0, an account_id that is no
\* account and a target that is no identity was answered 400 without a
\* lookup
C27_Witness ==
    \E r \in ReqIds :
        /\ app = "override" /\ reqs[r].handled /\ reqs[r].user.admin
        /\ Answered(r) /\ reqs[r].status = 400 /\ reqs[r].lookups = 0
        /\ reqs[r].body.parsable /\ reqs[r].body.amount = 0
        /\ reqs[r].body.has_target
        /\ reqs[r].body.target_user_id \notin UserIds
        /\ \A a \in accounts : a.id # reqs[r].body.account_id

\* r carries a token with the signature of the service, not yet expired
SignedUnexpired(r) ==
    /\ reqs[r].pc # "idle" /\ BearerToken(r)
    /\ reqs[r].header.token.kind = "jwt"
    /\ reqs[r].header.token.sig = jwtSecret
    /\ ~reqs[r].pastExpiry

\* C28: a signed, unexpired token whose payload has no id (or id 0) or no
\* username (or an empty one) is answered 401 by authMiddleware and the
\* handler does not run; any other signed, unexpired token is let through,
\* as admin only if its admin claim is true, so not if the claim is missing
C28_IncompletePayloadRefused ==
    \A r \in ReqIds :
        SignedUnexpired(r)
        => IF reqs[r].header.token.id = 0 \/ reqs[r].header.token.username = ""
           THEN /\ Refused401(r)
                /\ reqs[r].error = "Invalid token payload"
                /\ reqs[r].lookups = 0 /\ reqs[r].inserts = 0
                /\ RowsOf(r) = {}
           ELSE /\ reqs[r].handled
                /\ reqs[r].user.id = reqs[r].header.token.id
                /\ reqs[r].user.admin = (reqs[r].header.token.adminClaim = "true")
                /\ reqs[r].header.token.adminClaim = "absent"
                      => ~reqs[r].user.admin

\* C28 witness: a token with a username and id 0 was refused, and a token
\* of id 1 without an admin claim was let through as a non-admin and
\* refused the account of another identity
C28_Witness ==
    \E r, q \in ReqIds :
        /\ SignedUnexpired(r) /\ Answered(r)
        /\ reqs[r].header.token.id = 0 /\ reqs[r].header.token.username # ""
        /\ SignedUnexpired(q) /\ Answered(q)
        /\ reqs[q].header.token.id = 1
        /\ reqs[q].header.token.adminClaim = "absent"
        /\ reqs[q].handled /\ reqs[q].status = 403

\* C29: on GET /transactions/:username a non-admin that asks for another
\* username gets 403 whatever its length; 400 goes only to an admin or to
\* the owner of the name, for a name of more than 100 characters, and an
\* admin gets it for every such name; an admin that asks for a name of no
\* stored identity gets 200 with an empty list
C29_ForbiddenBeforeLength ==
    \A g \in GetIds :
        (Served(g) /\ gets[g].route = "/transactions/:username")
        => \A u \in ValidTokenOf(g) :
              /\ (~u.admin /\ u.username # gets[g].target)
                    => gets[g].status = 403
              /\ gets[g].status = 400
                    => /\ u.admin \/ u.username = gets[g].target
                       /\ Len(gets[g].target) > 100
              /\ (u.admin /\ Len(gets[g].target) > 100)
                    => gets[g].status = 400
              /\ ( /\ u.admin /\ Len(gets[g].target) \in 1..100
                    /\ \A o \in users : o.username # gets[g].target )
                    => gets[g].status = 200 /\ gets[g].list = {}

\* C29 witness: a non-admin asked for a username of 101 characters and was
\* answered 403
C29_Witness ==
    \E g \in GetIds :
        /\ Served(g) /\ gets[g].route = "/transactions/:username"
        /\ Len(gets[g].target) > 100
        /\ gets[g].status = 403
        /\ \E u \in ValidTokenOf(g) : ~u.admin

\* the login request l came without a username or without a password
LacksCredentials(l) ==
    l.sent.kind # "object" \/ l.sent.username = "" \/ l.sent.password = ""

\* C30: a login whose body is no JSON, or lacks a username or a password
\* or holds an empty one, is answered 400 with no lookup, no password
\* comparison and no token; a token goes out only with a 200, after one
\* lookup that found the username and one comparison that matched
C30_LoginInputChecked ==
    \A l \in logins :
        /\ LacksCredentials(l)
              => /\ l.status = 400
                 /\ l.lookups = 0 /\ l.compares = 0
                 /\ l.token = EmptyToken
        /\ l.token # EmptyToken
              => /\ l.status = 200 /\ l.lookups = 1 /\ l.compares = 1
                 /\ \E u \in users :
                       /\ u.username = l.sent.username
                       /\ u.password = bcryptHash(l.sent.password)

\* C30 but for the status of the response: no lookup, comparison or token
\* for a login that lacks credentials, and a token only after both
LoginNeverServedWithoutCredentials ==
    \A l \in logins :
        /\ LacksCredentials(l)
              => /\ l.status \in {400, 500}
                 /\ l.status = 500 => l.sent.kind = "null"
                 /\ l.lookups = 0 /\ l.compares = 0
                 /\ l.token = EmptyToken
        /\ l.token # EmptyToken
              => /\ l.status = 200 /\ l.lookups = 1 /\ l.compares = 1
                 /\ \E u \in users :
                       /\ u.username = l.sent.username
                       /\ u.password = bcryptHash(l.sent.password)

====
